---- MODULE Spec2Model ----
(***************************************************************************)
(* News-digest generator of server/src/services/newsAgent.ts.              *)
(*                                                                         *)
(* The module-level state is the cache (cachedDigest) and the in-progress  *)
(* flag (isGenerating).  Each invocation of generateDigest is an async     *)
(* call: its synchronous prefix runs atomically (Node runs one callback at *)
(* a time) and it suspends at every await: the fetch of searchNews, the    *)
(* body reads response.text() / response.json(), model.generateContent and *)
(* the 500 ms timer.  The environment (config file, search API, language   *)
(* model) is the nondeterministic input of the steps that read it.         *)
(***************************************************************************)
EXTENDS Integers, Sequences, FiniteSets, TLC

\* ---------------------------------------------------------------- bounds
MaxCalls == 2          \* generateDigest invocations that can be pending at once
MaxInvocations == 3    \* invocations of generateDigest in one behaviour
MaxLines == 2          \* lines of config/interests.txt

Calls == 1..MaxCalls

\* ------------------------------------------------------- the config file
\* A line is a sequence of characters; the file is the sequence of lines
\* that content.split('\n') yields (never empty: "" splits into [""]).
Whitespace == {" ", "\t"}

LineSet ==
    { <<>>, <<" ">>, <<"#", "a">>, <<"a">>, <<" ", "b", "\t">>, <<" ", "#", "a">> }

RECURSIVE SeqsUpTo(_, _)
SeqsUpTo(S, n) ==
    IF n = 0 THEN { <<>> }
    ELSE LET shorter == SeqsUpTo(S, n - 1)
         IN  shorter \cup { Append(s, e) : s \in { t \in shorter : Len(t) = n - 1 }, e \in S }

FileContents == { f \in SeqsUpTo(LineSet, MaxLines) : Len(f) >= 1 }

\* fs.existsSync is false / readFileSync throws (the path is a directory or
\* is not readable) / the file is read.
ReadErrors == { "EISDIR: illegal operation on a directory, read",
                "EACCES: permission denied, open" }

ConfigFiles ==
    { [kind |-> "absent"] }
    \cup { [kind |-> "unreadable", message |-> m] : m \in ReadErrors }
    \cup { [kind |-> "file", lines |-> f] : f \in FileContents }

RECURSIVE TrimStart(_)
TrimStart(line) ==
    IF line # <<>> /\ Head(line) \in Whitespace THEN TrimStart(Tail(line)) ELSE line

RECURSIVE TrimEnd(_)
TrimEnd(line) ==
    IF line # <<>> /\ line[Len(line)] \in Whitespace
    THEN TrimEnd(SubSeq(line, 1, Len(line) - 1))
    ELSE line

Trim(line) == TrimEnd(TrimStart(line))

\* Variant: the filter without the startsWith('#') test.
KeepLineWithComments(line) == Len(line) > 0

KeepLine(line) == Len(line) > 0 /\ Head(line) # "#"

RECURSIVE FilterLines(_)
FilterLines(lines) ==
    IF lines = <<>> THEN <<>>
    ELSE IF KeepLine(Head(lines))
         THEN <<Head(lines)>> \o FilterLines(Tail(lines))
         ELSE FilterLines(Tail(lines))

\* loadInterests(): [] when the file is absent, else the kept lines, trimmed.
loadInterests(file) ==
    IF file.kind = "absent" THEN <<>>
    ELSE FilterLines([k \in 1..Len(file.lines) |-> Trim(file.lines[k])])

\* What a run finds at CONFIG_PATH, told from the raw lines of the file.
BlankOrComment(line) ==
    \/ \A k \in 1..Len(line) : line[k] \in Whitespace
    \/ \E k \in 1..Len(line) :
          /\ line[k] = "#"
          /\ \A j \in 1..(k - 1) : line[j] \in Whitespace

ConfigKind(file) ==
    IF file.kind # "file" THEN file.kind
    ELSE IF \A k \in 1..Len(file.lines) : BlankOrComment(file.lines[k])
         THEN "blank"
         ELSE "topics"

\* ------------------------------------------------------------- digests
\* Strings are sequences of pieces, so that a message embeds its topic; the
\* accents of the source's French sentences are dropped.
null == [null |-> TRUE]

NoArticlesMessage(topic) ==
    <<"Aucun article recent trouve pour \"">> \o topic
        \o <<"\" au cours des dernieres 24 heures.">>

LLMErrorMessage(topic) ==
    <<"Erreur lors de la synthese pour \"">> \o topic
        \o <<"\". Les articles sont listes ci-dessous.">>

NoInterestsError ==
    "Aucun centre d'interet configure. Ajoutez des themes dans config/interests.txt."

\* What model.generateContent(prompt) can answer with.
LLMTexts == { <<"synthese">> }

\* One item of a search response and the ArticleResult it is mapped to.
\* A field of parsed JSON is a string or, here for the title, an object.
SearchItem ==
    [title |-> [string |-> "t"], link |-> "l", snippet |-> "s", displayLink |-> "d"]

\* An item whose title is the object {"toString": 1}: it has no callable
\* toString and its valueOf gives an object.
OddItem ==
    [title |-> [toString |-> 1], link |-> "l", snippet |-> "s", displayLink |-> "d"]

ToArticle(item) ==
    [title |-> item.title, link |-> item.link, snippet |-> item.snippet,
     source |-> item.displayLink]

\* data.items of a parsed response: missing or empty, or some items.
SearchResponses == { <<>>, <<SearchItem>>, <<OddItem>> }

\* synthesizeWithLLM, lines 106-108: `${a.title}` in the template literal
\* throws a TypeError for a value that has no primitive form.
PromptThrows(arts) == \E k \in 1..Len(arts) : "toString" \in DOMAIN arts[k].title

PromptError == "Cannot convert object to primitive value"

\* Variant: articleCount is the number of results asked for (num=5).
TopicDigestCountsRequested(topic, summary, arts) ==
    [topic |-> topic, summary |-> summary, articles |-> arts, articleCount |-> 5]

TopicDigest(topic, summary, arts) ==
    [topic |-> topic, summary |-> summary, articles |-> arts, articleCount |-> Len(arts)]

GeneratingDigest(t) == [generatedAt |-> t, topics |-> <<>>, status |-> "generating"]

\* Variant: the catch of line 198 does not keep the exception's message.
ErrorDigestUnknownError(t, msg) ==
    [generatedAt |-> t, topics |-> <<>>, status |-> "error", error |-> "Erreur inconnue"]

ErrorDigest(t, msg) ==
    [generatedAt |-> t, topics |-> <<>>, status |-> "error", error |-> msg]

ReadyDigest(t, tps) == [generatedAt |-> t, topics |-> tps, status |-> "ready"]

\* --------------------------------------------------------------- state
VARIABLES
    cachedDigest,   \* let cachedDigest: NewsDigest | null
    isGenerating,   \* let isGenerating
    now,            \* the clock new Date() reads: invocations so far
    pc,             \* per call: "idle", or the await the invocation is suspended in
    interests,      \* per call: const interests = loadInterests()
    idx,            \* per call: position of the for..of loop in interests
    topics,         \* per call: const topics: TopicDigest[]
    articles,       \* per call: const articles of the current iteration
    effects,        \* per call: what the pending invocation did to the outside world
    lastReturn,     \* history: the most recently resolved generateDigest promise
    nInvokedIdle,   \* history: invocations made while the flag was false
    nStarted,       \* history: runs started (line 150 executed)
    nCompleted,     \* history: runs that reached the finally of line 208
    configSeen,     \* history: what the most recent run found at CONFIG_PATH
    lastOutcome,    \* history: how the most recently completed run ended
    secrets,        \* index.ts: GOOGLE_SEARCH_API_KEY, GOOGLE_SEARCH_CX, GEMINI_API_KEY
    response,       \* history: the HTTP response sent by the step just taken
    config,         \* config/interests.txt and what loadInterests last made of it
    client,         \* Blog.tsx: the state of one mounted NewsDigest component
    request         \* history: the HTTP request handled by the step just taken

agentVars == << cachedDigest, isGenerating, now, pc, interests, idx, topics, articles,
                effects, lastReturn, nInvokedIdle, nStarted, nCompleted, configSeen,
                lastOutcome >>

vars == << agentVars, secrets, response, config, client, request >>

locals == << interests, idx, topics, articles >>

SearchPcs == { "fetch", "errorBody", "json" }
ActivePcs == SearchPcs \cup { "llm", "delay" }

NoEffects == [configReads |-> 0, searches |-> {}, llmCalls |-> {}, llmFailed |-> {}]

NoReturn == [call |-> 0]

NoResponse == [route |-> "none", status |-> 0, body |-> "", admin |-> FALSE]

NoRequest == [authorization |-> "no request"]

\* index.ts, lines 38-40 and 52-54: each secret is '' when it is not found.
SecretNames == { "google_search_api_key", "google_search_cx", "gemini_api_key" }

SecretChoices == [SecretNames -> { "", "key" }]

ConfiguredSecrets == [n \in SecretNames |-> "key"]

\* newsAgent.ts, lines 29-30, before any call.
NewsAgentInit ==
    /\ cachedDigest = null
    /\ isGenerating = FALSE
    /\ now = 0
    /\ pc = [c \in Calls |-> "idle"]
    /\ interests = [c \in Calls |-> <<>>]
    /\ idx = [c \in Calls |-> 0]
    /\ topics = [c \in Calls |-> <<>>]
    /\ articles = [c \in Calls |-> <<>>]
    /\ effects = [c \in Calls |-> NoEffects]
    /\ lastReturn = NoReturn
    /\ nInvokedIdle = 0
    /\ nStarted = 0
    /\ nCompleted = 0
    /\ configSeen = "none"
    /\ lastOutcome = "none"

\* In the specifications of the runs the file is an input of the step
\* that starts a run, and config is not used.
NoConfig == [file |-> [kind |-> "absent"], loaded |-> [done |-> FALSE]]

\* Blog.tsx, lines 546-550 and 587-589: the state of the component when it
\* is mounted, with the fetchDigest of its first effect still to run. effect
\* is the fetchDigest call scheduled by the effect of line 587, with the
\* pollInterval its closure holds; timer is the browser's interval;
\* triggered is the number of the run the last accepted refresh started.
MountedClient ==
    [digest |-> null, refreshing |-> FALSE, pollInterval |-> FALSE, timer |-> FALSE,
     effect |-> [pending |-> TRUE, poll |-> FALSE], triggered |-> 0]

\* The module on its own: generateDigest called by any caller, with keys.
Init ==
    /\ NewsAgentInit
    /\ secrets = ConfiguredSecrets
    /\ response = NoResponse
    /\ config = NoConfig
    /\ client = MountedClient
    /\ request = NoRequest

\* The server after initSecrets(): the secrets are whatever was found.
HttpInit ==
    /\ NewsAgentInit
    /\ secrets \in SecretChoices
    /\ response = NoResponse
    /\ config = NoConfig
    /\ client = MountedClient
    /\ request = NoRequest

getCachedDigest == cachedDigest

\* Variant: the callers act on a value of the flag read before an await.
isDigestGeneratingStale == FALSE

isDigestGenerating == isGenerating

\* ------------------------------------------------- generateDigest, lines 137-211
Interest(c) == interests[c][idx[c]]

\* The promise of call c resolves with value; the frame of the call is gone.
Return(c, value, ranPipeline, did) ==
    /\ lastReturn' = [call |-> c, value |-> value, started |-> ranPipeline,
                      interests |-> interests[c], effects |-> did]
    /\ pc' = [pc EXCEPT ![c] = "idle"]
    /\ interests' = [interests EXCEPT ![c] = <<>>]
    /\ idx' = [idx EXCEPT ![c] = 0]
    /\ topics' = [topics EXCEPT ![c] = <<>>]
    /\ articles' = [articles EXCEPT ![c] = <<>>]
    /\ effects' = [effects EXCEPT ![c] = NoEffects]

\* Variant: no finally block.
FlagLeftSet == TRUE

\* finally { isGenerating = false }
FlagAfterRun == FALSE

\* Variant: the digest is returned but not assigned to cachedDigest.
FinishWithoutCacheWrite(c, digest, outcome, did) ==
    /\ UNCHANGED cachedDigest
    /\ isGenerating' = FlagAfterRun
    /\ lastOutcome' = outcome
    /\ nCompleted' = nCompleted + 1
    /\ Return(c, digest, TRUE, did)

\* Variant: an 'error' digest is returned but does not replace a cached one.
FinishKeepsDigestOnError(c, digest, outcome, did) ==
    /\ cachedDigest' = IF digest.status = "error" /\ cachedDigest # null
                       THEN cachedDigest ELSE digest
    /\ isGenerating' = FlagAfterRun
    /\ lastOutcome' = outcome
    /\ nCompleted' = nCompleted + 1
    /\ Return(c, digest, TRUE, did)

\* cachedDigest = digest; return digest; finally { isGenerating = false }
Finish(c, digest, outcome, did) ==
    /\ cachedDigest' = digest
    /\ isGenerating' = FlagAfterRun
    /\ lastOutcome' = outcome
    /\ nCompleted' = nCompleted + 1
    /\ Return(c, digest, TRUE, did)

\* Variant: the placeholder is returned whatever the cache holds.
BusyResultAlwaysPlaceholder(cached, t) == GeneratingDigest(t)

\* Lines 143-147: what a call made during a run resolves with.
BusyResult(cached, t) == IF cached # null THEN cached ELSE GeneratingDigest(t)

\* Variant: the early return sits inside the try, so the finally runs.
GenerateDigestBusyInsideTry(c) ==
    /\ Return(c, BusyResult(cachedDigest, now'), FALSE, effects[c])
    /\ isGenerating' = FALSE
    /\ UNCHANGED << cachedDigest, nStarted, nCompleted, configSeen, lastOutcome >>

\* Variant: the digest the early return answers with is stored.
GenerateDigestBusyCachesResult(c) ==
    /\ Return(c, BusyResult(cachedDigest, now'), FALSE, effects[c])
    /\ cachedDigest' = BusyResult(cachedDigest, now')
    /\ UNCHANGED << isGenerating, nStarted, nCompleted, configSeen, lastOutcome >>

\* Lines 142-148: the flag is set, nothing is started.
GenerateDigestBusy(c) ==
    /\ Return(c, BusyResult(cachedDigest, now'), FALSE, effects[c])
    /\ UNCHANGED << cachedDigest, isGenerating, nStarted, nCompleted, configSeen,
                    lastOutcome >>

\* Line 154 with the catch of line 198: the interests, or the error thrown.
ReadConfig(file) ==
    IF file.kind = "unreadable"
    THEN [threw |-> TRUE, message |-> file.message]
    ELSE [threw |-> FALSE, interests |-> loadInterests(file)]

\* Variant: the run stores a 'generating' digest when it starts.
GenerateDigestRunCachesPlaceholder(c, file) ==
    LET read == ReadConfig(file)
        did  == [effects[c] EXCEPT !.configReads = @ + 1]
    IN  /\ nStarted' = nStarted + 1
        /\ configSeen' = ConfigKind(file)
        /\ IF read.threw
           THEN Finish(c, ErrorDigest(now', read.message), "threw", did)
           ELSE IF Len(read.interests) = 0
           THEN Finish(c, ErrorDigest(now', NoInterestsError), "empty", did)
           ELSE /\ isGenerating' = TRUE
                /\ interests' = [interests EXCEPT ![c] = read.interests]
                /\ topics' = [topics EXCEPT ![c] = <<>>]
                /\ idx' = [idx EXCEPT ![c] = 1]
                /\ pc' = [pc EXCEPT ![c] = "fetch"]
                /\ effects' = [effects EXCEPT ![c] = [did EXCEPT !.searches = @ \cup {1}]]
                /\ cachedDigest' = GeneratingDigest(now')
                /\ UNCHANGED << articles, lastReturn, nCompleted,
                                lastOutcome >>

\* Variant: the run empties the cache when it starts.
GenerateDigestRunClearsCache(c, file) ==
    LET read == ReadConfig(file)
        did  == [effects[c] EXCEPT !.configReads = @ + 1]
    IN  /\ nStarted' = nStarted + 1
        /\ configSeen' = ConfigKind(file)
        /\ IF read.threw
           THEN Finish(c, ErrorDigest(now', read.message), "threw", did)
           ELSE IF Len(read.interests) = 0
           THEN Finish(c, ErrorDigest(now', NoInterestsError), "empty", did)
           ELSE /\ isGenerating' = TRUE
                /\ interests' = [interests EXCEPT ![c] = read.interests]
                /\ topics' = [topics EXCEPT ![c] = <<>>]
                /\ idx' = [idx EXCEPT ![c] = 1]
                /\ pc' = [pc EXCEPT ![c] = "fetch"]
                /\ effects' = [effects EXCEPT ![c] = [did EXCEPT !.searches = @ \cup {1}]]
                /\ cachedDigest' = null
                /\ UNCHANGED << articles, lastReturn, nCompleted,
                                lastOutcome >>

\* Variant: line 150 is missing; the flag is only ever cleared.
GenerateDigestRunWithoutFlag(c, file) ==
    LET read == ReadConfig(file)
        did  == [effects[c] EXCEPT !.configReads = @ + 1]
    IN  /\ nStarted' = nStarted + 1
        /\ configSeen' = ConfigKind(file)
        /\ IF read.threw
           THEN Finish(c, ErrorDigest(now', read.message), "threw", did)
           ELSE IF Len(read.interests) = 0
           THEN Finish(c, ErrorDigest(now', NoInterestsError), "empty", did)
           ELSE /\ UNCHANGED isGenerating
                /\ interests' = [interests EXCEPT ![c] = read.interests]
                /\ topics' = [topics EXCEPT ![c] = <<>>]
                /\ idx' = [idx EXCEPT ![c] = 1]
                /\ pc' = [pc EXCEPT ![c] = "fetch"]
                /\ effects' = [effects EXCEPT ![c] = [did EXCEPT !.searches = @ \cup {1}]]
                /\ UNCHANGED << cachedDigest, articles, lastReturn, nCompleted,
                                lastOutcome >>

\* Lines 150-172: the flag is taken, the config is read, and the call either
\* finishes at once (read error, no interests) or suspends in the first fetch.
GenerateDigestRun(c, file) ==
    LET read == ReadConfig(file)
        did  == [effects[c] EXCEPT !.configReads = @ + 1]
    IN  /\ nStarted' = nStarted + 1
        /\ configSeen' = ConfigKind(file)
        /\ IF read.threw
           THEN Finish(c, ErrorDigest(now', read.message), "threw", did)
           ELSE IF Len(read.interests) = 0
           THEN Finish(c, ErrorDigest(now', NoInterestsError), "empty", did)
           ELSE /\ isGenerating' = TRUE
                /\ interests' = [interests EXCEPT ![c] = read.interests]
                /\ topics' = [topics EXCEPT ![c] = <<>>]
                /\ idx' = [idx EXCEPT ![c] = 1]
                /\ pc' = [pc EXCEPT ![c] = "fetch"]
                /\ effects' = [effects EXCEPT ![c] = [did EXCEPT !.searches = @ \cup {1}]]
                /\ UNCHANGED << cachedDigest, articles, lastReturn, nCompleted,
                                lastOutcome >>

\* A new invocation takes the first free call frame.
FreeFrame(c) == pc[c] = "idle" /\ \A d \in Calls : d < c => pc[d] # "idle"

\* Variant: no test of isGenerating at entry.
generateDigestUnguarded(c) ==
    /\ FreeFrame(c)
    /\ now < MaxInvocations
    /\ now' = now + 1
    /\ nInvokedIdle' = IF isGenerating THEN nInvokedIdle ELSE nInvokedIdle + 1
    /\ \E file \in ConfigFiles : GenerateDigestRun(c, file)

generateDigest(c) ==
    /\ FreeFrame(c)
    /\ now < MaxInvocations
    /\ now' = now + 1
    /\ nInvokedIdle' = IF isGenerating THEN nInvokedIdle ELSE nInvokedIdle + 1
    /\ IF isGenerating
       THEN GenerateDigestBusy(c)
       ELSE \E file \in ConfigFiles : GenerateDigestRun(c, file)

\* Variant: no early return for an empty article list.
NeedsLLMAlways(arts) == TRUE

\* synthesizeWithLLM, line 99: the model is called only for a non-empty list.
NeedsLLM(arts) == Len(arts) # 0

\* Variant: unshift instead of push.
PushTopicFront(c, summary, arts) ==
    /\ topics' = [topics EXCEPT ![c] = <<TopicDigest(Interest(c), summary, arts)>> \o @]
    /\ pc' = [pc EXCEPT ![c] = "delay"]

\* Lines 178-186: topics.push({...}); await the 500 ms timer.
PushTopic(c, summary, arts) ==
    /\ topics' = [topics EXCEPT ![c] = Append(@, TopicDigest(Interest(c), summary, arts))]
    /\ pc' = [pc EXCEPT ![c] = "delay"]

\* searchNews has returned arts: lines 173-176 and synthesizeWithLLM up to
\* its await of model.generateContent.
\* Variant: synthesizeWithLLM is called without await: the topic is pushed
\* with the pending promise as its summary.
SearchDoneWithoutAwait(c, arts) ==
    IF NeedsLLM(arts) /\ PromptThrows(arts)
    THEN /\ Finish(c, ErrorDigest(now, PromptError), "threw", effects[c])
         /\ UNCHANGED << now, nInvokedIdle, nStarted, configSeen >>
    ELSE /\ articles' = [articles EXCEPT ![c] = arts]
         /\ IF NeedsLLM(arts)
            THEN /\ PushTopic(c, <<"[object Promise]">>, arts)
                 /\ effects' = [effects EXCEPT ![c].llmCalls = @ \cup {idx[c]}]
            ELSE /\ PushTopic(c, NoArticlesMessage(Interest(c)), arts)
                 /\ UNCHANGED effects
         /\ UNCHANGED << cachedDigest, isGenerating, now, interests, idx, lastReturn,
                         nInvokedIdle, nStarted, nCompleted, configSeen, lastOutcome >>

\* The prompt is built outside the try of synthesizeWithLLM: an exception
\* there rejects the call and is caught at line 198 of generateDigest.
SearchDone(c, arts) ==
    IF NeedsLLM(arts) /\ PromptThrows(arts)
    THEN /\ Finish(c, ErrorDigest(now, PromptError), "threw", effects[c])
         /\ UNCHANGED << now, nInvokedIdle, nStarted, configSeen >>
    ELSE /\ articles' = [articles EXCEPT ![c] = arts]
         /\ IF NeedsLLM(arts)
            THEN /\ pc' = [pc EXCEPT ![c] = "llm"]
                 /\ effects' = [effects EXCEPT ![c].llmCalls = @ \cup {idx[c]}]
                 /\ UNCHANGED topics
            ELSE /\ PushTopic(c, NoArticlesMessage(Interest(c)), arts)
                 /\ UNCHANGED effects
         /\ UNCHANGED << cachedDigest, isGenerating, now, interests, idx, lastReturn,
                         nInvokedIdle, nStarted, nCompleted, configSeen, lastOutcome >>

\* Variant: no try/catch in searchNews; a rejected fetch reaches line 198.
FetchSettledNoCatch(c) ==
    /\ pc[c] = "fetch"
    /\ \/ /\ Finish(c, ErrorDigest(now, "fetch failed"), "threw", effects[c])
          /\ UNCHANGED << now, nInvokedIdle, nStarted, configSeen >>
       \/ /\ pc' = [pc EXCEPT ![c] = "errorBody"]     \* !response.ok
          /\ UNCHANGED << cachedDigest, isGenerating, now, locals, effects,
                          lastReturn, nInvokedIdle, nStarted, nCompleted,
                          configSeen, lastOutcome >>
       \/ /\ pc' = [pc EXCEPT ![c] = "json"]          \* response.ok
          /\ UNCHANGED << cachedDigest, isGenerating, now, locals, effects,
                          lastReturn, nInvokedIdle, nStarted, nCompleted,
                          configSeen, lastOutcome >>

\* searchNews, lines 65-71 and 85-88: await fetch(url).
FetchSettled(c) ==
    /\ pc[c] = "fetch"
    /\ \/ SearchDone(c, <<>>)                         \* fetch rejected: catch
       \/ /\ pc' = [pc EXCEPT ![c] = "errorBody"]     \* !response.ok
          /\ UNCHANGED << cachedDigest, isGenerating, now, locals, effects,
                          lastReturn, nInvokedIdle, nStarted, nCompleted,
                          configSeen, lastOutcome >>
       \/ /\ pc' = [pc EXCEPT ![c] = "json"]          \* response.ok
          /\ UNCHANGED << cachedDigest, isGenerating, now, locals, effects,
                          lastReturn, nInvokedIdle, nStarted, nCompleted,
                          configSeen, lastOutcome >>

\* searchNews, lines 67-69: await response.text(), resolved or rejected.
ErrorBodySettled(c) ==
    /\ pc[c] = "errorBody"
    /\ SearchDone(c, <<>>)

\* Variant: response.json() outside the try; its rejection reaches line 198.
JsonSettledNoCatch(c) ==
    /\ pc[c] = "json"
    /\ \/ /\ Finish(c, ErrorDigest(now, "Unexpected token"), "threw", effects[c])
          /\ UNCHANGED << now, nInvokedIdle, nStarted, configSeen >>
       \/ \E items \in SearchResponses :
             SearchDone(c, [k \in 1..Len(items) |-> ToArticle(items[k])])

\* searchNews, lines 72-88: await response.json().
JsonSettled(c) ==
    /\ pc[c] = "json"
    /\ \/ SearchDone(c, <<>>)                         \* unparsable body: catch
       \/ \E items \in SearchResponses :
             SearchDone(c, [k \in 1..Len(items) |-> ToArticle(items[k])])

searchNews(c) == FetchSettled(c) \/ ErrorBodySettled(c) \/ JsonSettled(c)

\* synthesizeWithLLM, lines 124-131: await model.generateContent(prompt).
LLMOutcomes == { [ok |-> FALSE] } \cup { [ok |-> TRUE, text |-> t] : t \in LLMTexts }

LLMSummary(topic, outcome) ==
    IF outcome.ok THEN outcome.text ELSE LLMErrorMessage(topic)

\* Variant: no try/catch around generateContent; the error reaches line 198.
synthesizeWithLLMNoCatch(c) ==
    /\ pc[c] = "llm"
    /\ \/ /\ \E t \in LLMTexts : PushTopic(c, t, articles[c])
          /\ UNCHANGED << cachedDigest, isGenerating, interests, idx, articles,
                          effects, lastReturn, nCompleted, lastOutcome >>
       \/ Finish(c, ErrorDigest(now, "generateContent failed"), "threw",
                 [effects[c] EXCEPT !.llmFailed = @ \cup {idx[c]}])
    /\ UNCHANGED << now, nInvokedIdle, nStarted, configSeen >>

\* Variant: no timer after topics.push; the next search starts at once.
synthesizeWithLLMNoDelay(c) ==
    /\ pc[c] = "llm"
    /\ \E outcome \in LLMOutcomes :
          /\ topics' = [topics EXCEPT ![c] =
                 Append(@, TopicDigest(Interest(c), LLMSummary(Interest(c), outcome),
                                       articles[c]))]
          /\ IF idx[c] < Len(interests[c])
             THEN /\ idx' = [idx EXCEPT ![c] = @ + 1]
                  /\ pc' = [pc EXCEPT ![c] = "fetch"]
                  /\ effects' = [effects EXCEPT
                         ![c].llmFailed = IF outcome.ok THEN @ ELSE @ \cup {idx[c]},
                         ![c].searches = @ \cup {idx[c] + 1}]
             ELSE /\ pc' = [pc EXCEPT ![c] = "delay"]
                  /\ effects' = [effects EXCEPT ![c].llmFailed =
                                    IF outcome.ok THEN @ ELSE @ \cup {idx[c]}]
                  /\ UNCHANGED idx
    /\ UNCHANGED << cachedDigest, isGenerating, now, interests, articles,
                    lastReturn, nInvokedIdle, nStarted, nCompleted,
                    configSeen, lastOutcome >>

synthesizeWithLLM(c) ==
    /\ pc[c] = "llm"
    /\ \E outcome \in LLMOutcomes :
          /\ PushTopic(c, LLMSummary(Interest(c), outcome), articles[c])
          /\ effects' = [effects EXCEPT ![c].llmFailed =
                            IF outcome.ok THEN @ ELSE @ \cup {idx[c]}]
    /\ UNCHANGED << cachedDigest, isGenerating, now, interests, idx, articles,
                    lastReturn, nInvokedIdle, nStarted, nCompleted,
                          configSeen, lastOutcome >>

\* Variant: the timer promise is never resolved.
DelayNeverResolves(c) ==
    /\ pc[c] = "delay"
    /\ UNCHANGED vars

\* Lines 186-197: the timer fires; next interest, or the digest is complete.
DelayElapsed(c) ==
    /\ pc[c] = "delay"
    /\ IF idx[c] < Len(interests[c])
       THEN /\ idx' = [idx EXCEPT ![c] = @ + 1]
            /\ pc' = [pc EXCEPT ![c] = "fetch"]
            /\ effects' = [effects EXCEPT ![c].searches = @ \cup {idx[c] + 1}]
            /\ UNCHANGED << cachedDigest, isGenerating, interests, topics,
                            articles, lastReturn, nCompleted, lastOutcome >>
       ELSE Finish(c, ReadyDigest(now, topics[c]), "ready", effects[c])
    /\ UNCHANGED << now, nInvokedIdle, nStarted, configSeen >>

\* ------------------------------------------------ index.ts, lines 834-879
\* The Authorization header of a request: none (or not 'Bearer ...'), a
\* token jwt.verify rejects, or a token it accepts, with the role it carries.
Requests ==
    { [authorization |-> "none"], [authorization |-> "invalid"] }
    \cup { [authorization |-> "valid", role |-> r] : r \in { "user", "admin" } }

\* middleware/auth.ts, lines 10-27.
authenticate(req) ==
    IF req.authorization = "none"
    THEN [next |-> FALSE, status |-> 401, error |-> "Unauthorized: No token provided"]
    ELSE IF req.authorization = "invalid"
    THEN [next |-> FALSE, status |-> 401, error |-> "Unauthorized: Invalid token"]
    ELSE [next |-> TRUE, userRole |-> req.role]

\* Variant: every authenticated role passes.
isAdminAnyRole(userRole) == userRole \in { "user", "admin" }

\* index.ts, lines 241-246.
isAdmin(userRole) == userRole = "admin"

EmptyDigestMessage ==
    "Aucun rapport de veille disponible. Un administrateur doit declencher la generation."

\* Lines 841-846: generatedAt is null (0 here: no run is stamped 0).
EmptyDigest ==
    [generatedAt |-> 0, topics |-> <<>>, status |-> "empty", message |-> EmptyDigestMessage]

\* Lines 839-848: what the GET handler sends.
DigestBody == IF getCachedDigest = null THEN EmptyDigest ELSE getCachedDigest

Reply(route, status, body, admin) ==
    response' = [route |-> route, status |-> status, body |-> body, admin |-> admin]

\* Variant: the handler stores the placeholder it answers with.
GetNewsDigestStoresPlaceholder(req) ==
    /\ Reply("digest", 200, IF getCachedDigest = null THEN EmptyDigest ELSE getCachedDigest,
             FALSE)
    /\ cachedDigest' = IF getCachedDigest = null THEN EmptyDigest ELSE getCachedDigest
    /\ UNCHANGED << isGenerating, now, pc, interests, idx, topics, articles,
                    effects, lastReturn, nInvokedIdle, nStarted, nCompleted, configSeen,
                    lastOutcome, secrets, config >>
    /\ request' = req

\* Variant: the handler sends what getCachedDigest() returns, null included.
GetNewsDigestNoPlaceholder(req) ==
    /\ Reply("digest", 200, getCachedDigest, FALSE)
    /\ request' = req
    /\ UNCHANGED << agentVars, secrets, config >>

\* GET /api/news-digest, lines 837-853; optionalAuthenticate lets every
\* request through.
GetNewsDigest(req) ==
    /\ Reply("digest", 200, DigestBody, FALSE)
    /\ request' = req
    /\ UNCHANGED << agentVars, secrets, config >>

KeysConfigured == \A n \in SecretNames : secrets[n] # ""

RefreshConflictError ==
    "Un rapport est deja en cours de generation. Veuillez patienter."

RefreshKeysError ==
    "Cles API manquantes. Verifiez google_search_api_key, google_search_cx et gemini_api_key dans les secrets."

RefreshStartedMessage == "Generation du rapport de veille lancee..."

\* Lines 868-874: res.json(...) first, then generateDigest(...) without await.
\* runsCompleted is the number of completed runs when the response is sent.
StartRefresh(sent) ==
    /\ \E c \in Calls : generateDigest(c)
    /\ response' = [route |-> "refresh", status |-> 200, body |-> RefreshStartedMessage,
                    admin |-> TRUE, runsCompleted |-> sent]

\* Variant: no test of isDigestGenerating() in the handler.
RefreshHandlerWithoutConflictTest ==
    IF ~KeysConfigured
    THEN Reply("refresh", 500, RefreshKeysError, TRUE) /\ UNCHANGED agentVars
    ELSE StartRefresh(nCompleted)

\* Variant: the handler awaits generateDigest before it responds.
RefreshHandlerRespondsAfterCall ==
    IF isDigestGenerating
    THEN Reply("refresh", 409, RefreshConflictError, TRUE) /\ UNCHANGED agentVars
    ELSE IF ~KeysConfigured
    THEN Reply("refresh", 500, RefreshKeysError, TRUE) /\ UNCHANGED agentVars
    ELSE StartRefresh(nCompleted')

\* The handler of POST /api/news-digest/refresh, lines 857-879.
RefreshHandler ==
    IF isDigestGenerating
    THEN Reply("refresh", 409, RefreshConflictError, TRUE) /\ UNCHANGED agentVars
    ELSE IF ~KeysConfigured
    THEN Reply("refresh", 500, RefreshKeysError, TRUE) /\ UNCHANGED agentVars
    ELSE StartRefresh(nCompleted)

\* POST /api/news-digest/refresh, line 856: authenticate, isAdmin, handler.
PostRefresh(req) ==
    /\ LET auth == authenticate(req)
       IN  IF ~auth.next
           THEN Reply("refresh", auth.status, auth.error, FALSE) /\ UNCHANGED agentVars
           ELSE IF ~isAdmin(auth.userRole)
           THEN /\ Reply("refresh", 403, "Forbidden: Admin access required", FALSE)
                /\ UNCHANGED agentVars
           ELSE RefreshHandler
    /\ request' = req
    /\ UNCHANGED << secrets, config >>

\* Variant: a watchdog clears the flag of a run whose call does not return.
SettleOrWatchdog(c) ==
    /\ \/ searchNews(c) \/ synthesizeWithLLM(c) \/ DelayElapsed(c)
       \/ /\ pc[c] \in ActivePcs
          /\ isGenerating' = FALSE
          /\ UNCHANGED << cachedDigest, now, pc, interests, idx, topics, articles,
                          effects, lastReturn, nInvokedIdle, nStarted, nCompleted,
                          configSeen, lastOutcome >>
    /\ response' = NoResponse
    /\ request' = NoRequest
    /\ UNCHANGED << secrets, config >>

\* An await of a run settles; no response is sent by that step.
Settle(c) ==
    /\ searchNews(c) \/ synthesizeWithLLM(c) \/ DelayElapsed(c)
    /\ response' = NoResponse
    /\ request' = NoRequest
    /\ UNCHANGED << secrets, config >>

\* ------------------------------------------------------- specifications
Next ==
    /\ \E c \in Calls :
          \/ generateDigest(c)
          \/ searchNews(c)
          \/ synthesizeWithLLM(c)
          \/ DelayElapsed(c)
    /\ UNCHANGED << secrets, response, config, client, request >>

Spec == Init /\ [][Next]_vars

\* The server: generateDigest is called by the refresh handler only.
HttpNext ==
    \/ \E c \in Calls : Settle(c) /\ UNCHANGED client
    \/ \E req \in Requests : GetNewsDigest(req) /\ UNCHANGED client
    \/ \E req \in Requests : PostRefresh(req) /\ UNCHANGED client

HttpSpec == HttpInit /\ [][HttpNext]_vars

\* ------------------------------------------- Blog.tsx, lines 545-628
\* The component is shown to a user whose role is 'admin' (the button of
\* line 692); the token it sends is accepted or is not (expired session).
ClientRequests ==
    { [authorization |-> "invalid"], [authorization |-> "valid", role |-> "admin"] }

\* An exchange is one step: the request is handled by the server and the
\* continuation of the await of fetch and of res.json() runs with the
\* response, before the next step of the server.

\* Lines 568-575 of fetchDigest, with poll the pollInterval of its closure:
\* the component after setDigest(data) and the test that stops the polling.
\* The change of pollInterval gives a new fetchDigest, which the effect of
\* line 587 calls.
AfterFetch(data, poll, effect) ==
    IF data.status # "generating" /\ poll
    THEN [client EXCEPT !.digest = data, !.timer = FALSE, !.pollInterval = FALSE,
                        !.refreshing = FALSE,
                        !.effect = [pending |-> TRUE, poll |-> FALSE]]
    ELSE [client EXCEPT !.digest = data, !.effect = effect]

\* The fetchDigest call of the effect of lines 587-589.
EffectFetch ==
    /\ client.effect.pending
    /\ \E req \in ClientRequests : GetNewsDigest(req)
    /\ client' = AfterFetch(response'.body, client.effect.poll,
                            [pending |-> FALSE, poll |-> FALSE])

\* A tick of the interval of line 613: the fetchDigest of the render in
\* which the button was clicked, whose pollInterval is null.
TickFetch ==
    /\ client.timer
    /\ \E req \in ClientRequests : GetNewsDigest(req)
    /\ client' = AfterFetch(response'.body, FALSE, client.effect)

\* handleRefresh, lines 594-628; the button is disabled while refreshing.
HandleRefresh ==
    /\ ~client.refreshing
    /\ \E req \in ClientRequests : PostRefresh(req)
    /\ client' =
          IF response'.status = 401
          THEN [client EXCEPT !.refreshing = TRUE]
          ELSE IF response'.status = 200
          THEN [client EXCEPT
                   !.refreshing = TRUE, !.timer = TRUE, !.pollInterval = TRUE,
                   !.digest = IF @ = null THEN null
                              ELSE [@ EXCEPT !.status = "generating"],
                   !.effect = [pending |-> TRUE, poll |-> TRUE],
                   !.triggered = nStarted']
          ELSE [client EXCEPT !.refreshing = FALSE]

\* The server with the component as its only client.
ClientNext ==
    \/ \E c \in Calls : Settle(c) /\ UNCHANGED client
    \/ EffectFetch
    \/ TickFetch
    \/ HandleRefresh

ClientSpec == HttpInit /\ [][ClientNext]_vars

\* loadInterests on its own: the file is written by hand between the
\* reads, and each read keeps the file it saw with what it returned.
LoadInit ==
    /\ NewsAgentInit
    /\ secrets = ConfiguredSecrets
    /\ response = NoResponse
    /\ config \in { [file |-> f, loaded |-> [done |-> FALSE]] : f \in ConfigFiles }
    /\ client = MountedClient
    /\ request = NoRequest

WriteConfig ==
    /\ \E f \in ConfigFiles : config' = [config EXCEPT !.file = f]
    /\ UNCHANGED << agentVars, secrets, response, client, request >>

\* Variant: the lines are filtered as read; nothing is trimmed.
LoadInterestsUntrimmed ==
    /\ config' = [config EXCEPT !.loaded =
                      [done |-> TRUE, file |-> config.file,
                       threw |-> config.file.kind = "unreadable",
                       value |-> IF config.file.kind = "file"
                                 THEN FilterLines(config.file.lines) ELSE <<>>]]
    /\ UNCHANGED << agentVars, secrets, response, client, request >>

\* A call of loadInterests(), lines 39-49.
LoadInterests ==
    /\ LET read == ReadConfig(config.file)
       IN  config' = [config EXCEPT !.loaded =
                         [done |-> TRUE, file |-> config.file, threw |-> read.threw,
                          value |-> IF read.threw THEN <<>> ELSE read.interests]]
    /\ UNCHANGED << agentVars, secrets, response, client, request >>

LoadNext == WriteConfig \/ LoadInterests

LoadSpec == LoadInit /\ [][LoadNext]_vars

\* Every await of a run eventually settles.
FairSpec ==
    /\ Spec
    /\ \A c \in Calls :
          /\ WF_vars(searchNews(c) /\ UNCHANGED << secrets, response, config, client, request >>)
          /\ WF_vars(synthesizeWithLLM(c) /\ UNCHANGED << secrets, response, config, client, request >>)
          /\ WF_vars(DelayElapsed(c) /\ UNCHANGED << secrets, response, config, client, request >>)

TypeOK ==
    /\ isGenerating \in BOOLEAN
    /\ pc \in [Calls -> {"idle"} \cup ActivePcs]
    /\ now \in 0..MaxInvocations


\* ------------------------------------------------------------ properties
Status(d) == IF d = null THEN "null" ELSE d.status

Active == { c \in Calls : pc[c] \in ActivePcs }

Invoked == now' # now

RunCompleted == nCompleted' # nCompleted

Returned == lastReturn.call # 0

\* C1: under any interleaving of generateDigest invocations with the awaits
\* of a run, at most one invocation is inside the per-topic pipeline.
AtMostOneGenerationActive == Cardinality(Active) <= 1

\* A second invocation arrived during the first run, which is at the LLM call
\* of its second topic.
WitnessSecondCallDuringRun ==
    /\ \E c \in Calls : pc[c] = "llm" /\ idx[c] = 2
    /\ cachedDigest = null
    /\ Returned /\ ~lastReturn.started

\* C2: an invocation made while the flag is set changes no call frame, reads
\* no config, calls neither the search API nor the model, and resolves with
\* the cached digest, or with a 'generating' digest without topics when the
\* cache is empty.
BusyCallReturnsCacheOrPlaceholder ==
    [][ (Invoked /\ isGenerating) =>
          /\ pc' = pc /\ interests' = interests /\ idx' = idx /\ topics' = topics
          /\ effects' = effects
          /\ nStarted' = nStarted
          /\ ~lastReturn'.started
          /\ lastReturn'.effects.configReads = 0
          /\ lastReturn'.effects.searches = {}
          /\ lastReturn'.effects.llmCalls = {}
          /\ IF cachedDigest # null
             THEN lastReturn'.value = cachedDigest
             ELSE /\ lastReturn'.value.status = "generating"
                  /\ lastReturn'.value.topics = <<>> ]_vars

\* A call made during the second run has resolved with the first run's digest.
WitnessBusyCallGotCache ==
    /\ isGenerating
    /\ Returned /\ ~lastReturn.started
    /\ cachedDigest # null
    /\ lastReturn.value = cachedDigest
    /\ lastReturn.value.status = "ready"

\* C3: an invocation made while the flag is set leaves the flag set and the
\* cache as it was, and no run is ever started for it: the runs started are
\* as many as the invocations made while the flag was clear.
BusyCallIgnoredNotQueued ==
    /\ [][ (Invoked /\ isGenerating) =>
             (isGenerating' /\ cachedDigest' = cachedDigest) ]_vars
    /\ [][ nStarted' # nStarted => (Invoked /\ ~isGenerating) ]_vars
    /\ [](nStarted = nInvokedIdle)

\* A call was turned away during a run, the run has ended, and nothing runs.
WitnessIgnoredCallRunOver ==
    /\ nInvokedIdle < now
    /\ ~isGenerating
    /\ Active = {}
    /\ Returned /\ lastReturn.started /\ lastReturn.value.status = "ready"

\* C4: the step that completes a run, on any path, clears the flag and
\* leaves in the cache the digest the run resolved with: 'ready' when the
\* loop ended, 'error' with a message otherwise.
RunCompletionPublishes ==
    [][ RunCompleted =>
          /\ ~isGenerating'
          /\ lastReturn'.started
          /\ cachedDigest' = lastReturn'.value
          /\ IF lastOutcome' = "ready"
             THEN cachedDigest'.status = "ready"
             ELSE /\ cachedDigest'.status = "error"
                  /\ "error" \in DOMAIN cachedDigest'
                  /\ cachedDigest'.error # "" ]_vars

\* A run that threw replaced a 'ready' digest by an 'error' one.
WitnessRunThrew ==
    /\ lastOutcome = "threw"
    /\ nCompleted >= 2
    /\ ~isGenerating
    /\ Status(cachedDigest) = "error"
    /\ cachedDigest.error \in ReadErrors

\* C5: from the end of a successful run until the next run starts, the
\* cached digest is 'ready' and the flag is clear.
ReadyAfterSuccessfulRun ==
    (lastOutcome = "ready" /\ Active = {}) =>
        (Status(getCachedDigest) = "ready" /\ ~isDigestGenerating)

\* A successful run over two interests has ended and nothing runs.
WitnessSuccessfulRunEnded ==
    /\ lastOutcome = "ready"
    /\ Active = {}
    /\ Status(cachedDigest) = "ready"
    /\ Len(cachedDigest.topics) = 2
    /\ ~isGenerating

\* C6: if every await settles, a started run completes and the flag is
\* cleared; a run ends only by its own completion and starts only by an
\* invocation.
StartedRunCompletes ==
    /\ \A c \in Calls : (pc[c] \in ActivePcs) ~> (pc[c] = "idle" /\ ~isGenerating)
    /\ [][ \A c \in Calls : (pc[c] \in ActivePcs /\ pc'[c] = "idle") => RunCompleted ]_vars
    /\ [][ nStarted' # nStarted => Invoked ]_vars

\* A run went through search, model and timer for two interests and ended.
WitnessLongRunEnded ==
    /\ Returned /\ lastReturn.started
    /\ lastReturn.effects.searches = {1, 2}
    /\ lastReturn.effects.llmCalls = {1, 2}
    /\ ~isGenerating

\* C7: a run that finds no file, or a file of blank and comment lines only,
\* ends in the step that started it, with no search and no model call, an
\* 'error' digest without topics and with a message returned and cached, and
\* the flag clear.
NoInterestsGivesErrorDigest ==
    [][ (nStarted' # nStarted /\ configSeen' \in {"absent", "blank"}) =>
          /\ RunCompleted
          /\ ~isGenerating'
          /\ pc' = pc
          /\ lastReturn'.started
          /\ lastReturn'.effects.searches = {}
          /\ lastReturn'.effects.llmCalls = {}
          /\ lastReturn'.value.status = "error"
          /\ lastReturn'.value.topics = <<>>
          /\ lastReturn'.value.error = NoInterestsError
          /\ cachedDigest' = lastReturn'.value ]_vars

\* A run found only blank and comment lines and left an 'error' digest.
WitnessBlankConfigRun ==
    /\ configSeen = "blank"
    /\ Returned /\ lastReturn.started
    /\ Status(cachedDigest) = "error"
    /\ cachedDigest.error = NoInterestsError
    /\ ~isGenerating

\* C8: a topic whose search gave no article has the fixed 'no article'
\* summary, articleCount 0 and no articles, and the model was not called
\* for it.
EmptyTopic(td, interest, k, did) ==
    td.articles = <<>> =>
        /\ td.summary = NoArticlesMessage(interest)
        /\ td.articleCount = 0
        /\ k \notin did.llmCalls

NoArticlesNoModelCall ==
    /\ \A c \in Calls : \A k \in 1..Len(topics[c]) :
          EmptyTopic(topics[c][k], interests[c][k], k, effects[c])
    /\ (Returned /\ lastReturn.started) =>
          \A k \in 1..Len(lastReturn.value.topics) :
             EmptyTopic(lastReturn.value.topics[k], lastReturn.interests[k], k,
                        lastReturn.effects)

\* A finished run had one topic without articles and one with.
WitnessTopicWithoutArticles ==
    /\ Returned /\ lastReturn.started
    /\ Len(lastReturn.value.topics) = 2
    /\ lastReturn.value.topics[1].articles = <<>>
    /\ lastReturn.value.topics[2].articles # <<>>
    /\ lastReturn.effects.llmCalls = {2}

\* C9: the interests of a run do not change while it runs, and a 'ready'
\* digest has one TopicDigest per interest of its run, in the same order.
ReadyTopicsFollowInterests ==
    [][ \A c \in Calls :
          /\ (pc[c] \in ActivePcs /\ pc'[c] \in ActivePcs) => interests'[c] = interests[c]
          /\ (pc[c] \in ActivePcs /\ pc'[c] = "idle" /\ Status(cachedDigest') = "ready") =>
                /\ Len(cachedDigest'.topics) = Len(interests[c])
                /\ \A k \in 1..Len(interests[c]) :
                      cachedDigest'.topics[k].topic = interests[c][k]
                /\ lastReturn'.value = cachedDigest' ]_vars

\* A 'ready' digest for the interests b, a in that order.
WitnessTwoTopicsInOrder ==
    /\ Returned /\ lastReturn.started
    /\ lastReturn.interests = << <<"b">>, <<"a">> >>
    /\ Status(cachedDigest) = "ready"
    /\ cachedDigest.topics[1].topic = <<"b">>
    /\ cachedDigest.topics[2].topic = <<"a">>

RecordedWithoutArticles(c) ==
    /\ pc'[c] = "delay"
    /\ articles'[c] = <<>>
    /\ topics'[c] = Append(topics[c],
                           TopicDigest(interests[c][idx[c]],
                                       NoArticlesMessage(interests[c][idx[c]]), <<>>))
    /\ effects'[c] = effects[c]

\* The run of frame c goes on with the same interest, by this step.
RunGoesOn(c) ==
    /\ pc'[c] \in ActivePcs
    /\ idx'[c] = idx[c] /\ interests'[c] = interests[c]
    /\ ~RunCompleted
    /\ lastReturn' = lastReturn
    /\ UNCHANGED << cachedDigest, isGenerating >>

\* C11: a search that fails throws nothing and is a search without results.
\* When the await of fetch settles, the run goes on: with an empty article
\* list if fetch was rejected, else to the reading of the body. A
\* non-success status gives an empty list however the reading of the error
\* body ends. When response.json() settles, the topic is recorded without
\* articles (unparsable body, or no item), or the items found go on to
\* synthesizeWithLLM: the model is called, or the exception of the prompt
\* built from the items ends the run.
FailedSearchIsNoResult ==
    [][\A c \in Calls :
          (pc[c] \in SearchPcs /\ pc'[c] # pc[c]) =>
             /\ (pc[c] \in { "fetch", "errorBody" }) =>
                   /\ RunGoesOn(c)
                   /\ pc'[c] \notin SearchPcs => RecordedWithoutArticles(c)
             /\ (pc[c] = "json") =>
                   \/ RunGoesOn(c) /\ RecordedWithoutArticles(c)
                   \/ RunGoesOn(c) /\ pc'[c] = "llm" /\ articles'[c] # <<>>
                   \/ /\ RunCompleted
                      /\ cachedDigest' = ErrorDigest(now, PromptError)
       ]_vars

\* The first search of a run gave nothing, and the run went on to search
\* the second interest.
WitnessRunWentOnAfterEmptySearch ==
    \E c \in Calls :
        /\ pc[c] \in SearchPcs /\ idx[c] = 2
        /\ Len(topics[c]) = 1
        /\ topics[c][1].articleCount = 0
        /\ effects[c].llmCalls = {}
        /\ isGenerating

\* C12: a run resolves with a 'ready' or an 'error' digest. It is 'error'
\* only when the run had no interest to process (the 'no interest' message,
\* no search made) or when an exception was thrown: by the read of the
\* interests, before any search, or by the building of a prompt from the
\* articles found. In every other run, whichever searches gave nothing and
\* whichever model calls failed, the digest is 'ready'.
ErrorOnlyWithoutInterestsOrOnException ==
    (Returned /\ lastReturn.started) =>
        LET d == lastReturn.value
            did == lastReturn.effects
        IN  /\ d.status \in { "ready", "error" }
            /\ d.status = "error" =>
                   /\ d.error \in { NoInterestsError, PromptError } \cup ReadErrors
                   /\ d.error # PromptError =>
                         /\ lastReturn.interests = <<>>
                         /\ did.searches = {} /\ did.llmCalls = {}
                   /\ d.error = PromptError => did.searches # {}
            /\ d.status = "ready" <=>
                   /\ lastReturn.interests # <<>>
                   /\ did.searches = 1..Len(lastReturn.interests)
                   /\ Len(d.topics) = Len(lastReturn.interests)

\* A run ended 'ready' although the search of its first topic gave nothing
\* and the model failed for its second.
WitnessReadyDespiteFailures ==
    /\ Returned /\ lastReturn.started
    /\ lastReturn.value.status = "ready"
    /\ lastReturn.value.topics[1].articleCount = 0
    /\ lastReturn.effects.llmFailed = {2}
    /\ cachedDigest = lastReturn.value

\* C13: the step in which an exception ends a run (thrown by the read of
\* the interests before any topic, or by the building of a prompt with
\* topics already recorded) replaces the cache, whatever it held, by an
\* 'error' digest with the message of the exception and no topic, resolves
\* the call with that digest, and clears the flag; an invocation made after
\* such a run, with no run active, starts a new run.
ExceptionGivesErrorDigest ==
    [][/\ (RunCompleted /\ lastOutcome' = "threw") =>
             /\ cachedDigest'.status = "error"
             /\ cachedDigest'.topics = <<>>
             /\ cachedDigest'.generatedAt = now'
             /\ cachedDigest'.error \in
                    (IF Active = {} THEN ReadErrors ELSE { PromptError })
             /\ lastReturn'.value = cachedDigest'
             /\ lastReturn'.started
             /\ ~isGenerating'
             /\ Active' = {}
       /\ (Invoked /\ lastOutcome = "threw" /\ Active = {}) =>
             /\ ~isGenerating
             /\ nStarted' = nStarted + 1
      ]_vars

\* A second run recorded its first topic and was ended by the exception of
\* the prompt of its second topic: the cache holds the 'error' digest
\* without topics, the flag is clear.
WitnessRunThrewAfterFirstTopic ==
    /\ lastOutcome = "threw"
    /\ nCompleted = 2
    /\ Returned /\ lastReturn.started
    /\ lastReturn.effects.searches = {1, 2}
    /\ cachedDigest = ErrorDigest(now, PromptError)
    /\ ~isGenerating

\* The frames with a request to the search API or to the model in flight.
Outstanding == { c \in Calls : pc[c] \in SearchPcs \cup { "llm" } }

\* C14: a run works on one interest at a time, in order, and at most one
\* request to the search API or to the model is in flight. While interest
\* i is searched, the searches made are those of interests 1..i, topics
\* 1..i-1 are recorded and the model has not been called for i; the model
\* is called for i only with the articles its search returned; every model
\* call of an earlier interest has settled before its topic was recorded;
\* and the timer runs only once topic i is recorded.
StrictlySequential ==
    /\ Cardinality(Outstanding) <= 1
    /\ \A c \in Calls : pc[c] \in ActivePcs =>
          /\ idx[c] \in 1..Len(interests[c])
          /\ effects[c].searches = 1..idx[c]
          /\ effects[c].llmCalls \subseteq 1..idx[c]
          /\ pc[c] \in SearchPcs =>
                /\ Len(topics[c]) = idx[c] - 1
                /\ idx[c] \notin effects[c].llmCalls
          /\ pc[c] = "llm" =>
                /\ Len(topics[c]) = idx[c] - 1
                /\ idx[c] \in effects[c].llmCalls
                /\ articles[c] # <<>>
          /\ pc[c] = "delay" => Len(topics[c]) = idx[c]
          /\ \A k \in 1..Len(topics[c]) :
                /\ topics[c][k].topic = interests[c][k]
                /\ k \in effects[c].llmCalls =>
                      topics[c][k].summary \in
                         LLMTexts \cup { LLMErrorMessage(interests[c][k]) }

\* The model is being called for the second interest, after the first
\* topic was recorded with the model's text.
WitnessSecondModelCallAfterFirstTopic ==
    \E c \in Calls :
        /\ pc[c] = "llm" /\ idx[c] = 2
        /\ Len(topics[c]) = 1
        /\ topics[c][1].summary \in LLMTexts
        /\ effects[c].llmCalls = {1, 2}
        /\ effects[c].searches = {1, 2}

\* C15: a run passes from one interest to the next, and starts the search
\* of the next, only in the step in which the timer started after the
\* recording of the previous topic fires.
DelayBetweenTopics ==
    [][\A c \in Calls :
          (pc[c] \in ActivePcs /\ pc'[c] \in ActivePcs
             /\ (idx'[c] # idx[c] \/ effects'[c].searches # effects[c].searches)) =>
                /\ pc[c] = "delay"
                /\ Len(topics[c]) = idx[c]
                /\ pc'[c] = "fetch"
                /\ idx'[c] = idx[c] + 1
                /\ effects'[c].searches = effects[c].searches \cup {idx[c] + 1}
                /\ topics'[c] = topics[c]
      ]_vars

\* The timer after the first topic has fired and the second search is on.
WitnessSecondSearchAfterDelay ==
    \E c \in Calls :
        /\ pc[c] = "fetch" /\ idx[c] = 2
        /\ Len(topics[c]) = 1
        /\ effects[c].searches = {1, 2}

\* C16: the cache changes only in the step that completes a run, and that
\* step writes it once, with the digest the run resolves with: from the
\* start of a run to its completion the cache is what it was. The cache
\* never holds a 'generating' digest nor a digest of a part of the
\* interests: a 'ready' digest has one topic per interest of its run, an
\* 'error' digest has none. No run completes that was not started.
CacheWrittenOnceAtRunEnd ==
    [][/\ cachedDigest' # cachedDigest => RunCompleted
       /\ RunCompleted =>
             /\ nCompleted' = nCompleted + 1
             /\ nCompleted' <= nStarted'
             /\ cachedDigest' = lastReturn'.value
             /\ lastReturn'.started
             /\ cachedDigest'.generatedAt = now'
             /\ cachedDigest'.status \in { "ready", "error" }
             /\ cachedDigest'.status = "ready" =>
                   /\ Len(cachedDigest'.topics) = Len(lastReturn'.interests)
                   /\ Len(cachedDigest'.topics) > 0
             /\ cachedDigest'.status = "error" => cachedDigest'.topics = <<>>
       /\ Status(cachedDigest') \in { "null", "ready", "error" }
      ]_vars

\* A second run has recorded its first topic of two; the cache still holds
\* the 'ready' digest of the first run.
WitnessCacheKeptDuringSecondRun ==
    \E c \in Calls :
        /\ pc[c] = "delay" /\ idx[c] = 1 /\ Len(interests[c]) = 2
        /\ nStarted = 2 /\ nCompleted = 1
        /\ Status(cachedDigest) = "ready"
        /\ cachedDigest.generatedAt = 1

\* C17: the cache and the flag change only in a step of a generateDigest
\* run: the step that starts it or the step that completes it. A request
\* to GET /api/news-digest, which reads the cache with getCachedDigest,
\* and a refresh request answered after the test of isDigestGenerating()
\* alone, change nothing of the digest generator.
OnlyRunsChangeCacheAndFlag ==
    [][/\ (cachedDigest' # cachedDigest \/ isGenerating' # isGenerating) =>
             (nStarted' # nStarted \/ RunCompleted)
       /\ response'.route = "digest" =>
             /\ UNCHANGED agentVars
             /\ response'.status = 200
             /\ response'.body = IF cachedDigest = null THEN EmptyDigest ELSE cachedDigest
       /\ (response'.route = "refresh" /\ response'.status = 409) =>
             UNCHANGED agentVars
      ]_vars

\* The digest was requested while no digest was cached and a run was active.
WitnessDigestReadDuringFirstRun ==
    /\ response.route = "digest"
    /\ response.body = EmptyDigest
    /\ cachedDigest = null
    /\ isGenerating
    /\ Active # {}

\* C18: isDigestGenerating() is true exactly while a run is suspended in
\* its pipeline, that is, while a started run has not completed.
FlagTrueExactlyDuringRun ==
    /\ isDigestGenerating <=> Active # {}
    /\ isDigestGenerating <=> nStarted = nCompleted + 1
    /\ ~isDigestGenerating <=> nStarted = nCompleted

\* The flag is set during a second run and was clear after the first.
WitnessFlagSetDuringSecondRun ==
    /\ isDigestGenerating
    /\ nStarted = 2 /\ nCompleted = 1
    /\ \E c \in Calls : pc[c] = "errorBody"

\* The step answers a request to POST /api/news-digest/refresh.
RefreshAnswered == response'.route = "refresh"

\* C19 as stated: every refresh request received while a run is active is
\* answered 409, starts no run and leaves the cache and the flag unchanged.
RefreshWhileGeneratingAlways409 ==
    [][(RefreshAnswered /\ isDigestGenerating) =>
          /\ response'.status = 409
          /\ UNCHANGED << cachedDigest, isGenerating, nStarted >>
      ]_vars

\* C19: a refresh request received while a run is active calls nothing of
\* the digest generator but isDigestGenerating(): no run is started, the
\* cache and the flag are unchanged. It is answered 409 with the conflict
\* message when it comes from an authenticated administrator, whether the
\* API keys are configured or not; otherwise it is answered 401 or 403 by
\* the middleware, before the handler.
RefreshWhileGeneratingRejected ==
    [][(RefreshAnswered /\ isDigestGenerating) =>
          /\ UNCHANGED agentVars
          /\ IF response'.admin
             THEN /\ response'.status = 409
                  /\ response'.body = RefreshConflictError
             ELSE response'.status \in { 401, 403 }
      ]_vars

\* An administrator's refresh request was answered 409 during a second
\* run, the digest of the first run being cached.
WitnessRefreshRejectedDuringRun ==
    /\ response.route = "refresh"
    /\ response.status = 409
    /\ response.admin
    /\ isGenerating /\ Active # {}
    /\ Status(cachedDigest) = "ready"
    /\ nStarted = 2

\* C20 as stated: every refresh request received while no run is active
\* starts a run and is answered with the success response.
RefreshWhileIdleAlwaysStarts ==
    [][(RefreshAnswered /\ ~isDigestGenerating) =>
          /\ response'.status = 200
          /\ nStarted' = nStarted + 1
      ]_vars

\* C20: a refresh request received while no run is active, from an
\* authenticated administrator and with the three API keys configured, is
\* answered 200 with the fixed message and starts a run; the response is
\* sent before generateDigest is called, hence before the run completes,
\* and is the same whatever the run gives, also when the run ends with an
\* 'error' digest in the very step that starts it. With a key missing the
\* administrator is answered 500, and any other request 401 or 403; no
\* run is started then and the digest generator is left as it was.
RefreshWhileIdleStartsAndAnswers ==
    [][(RefreshAnswered /\ ~isDigestGenerating) =>
          IF response'.admin /\ KeysConfigured
          THEN /\ response'.status = 200
               /\ response'.body = RefreshStartedMessage
               /\ response'.runsCompleted = nCompleted
               /\ nStarted' = nStarted + 1
               /\ nInvokedIdle' = nInvokedIdle + 1
               /\ isGenerating' \/ RunCompleted
          ELSE /\ UNCHANGED agentVars
               /\ IF response'.admin
                  THEN /\ response'.status = 500
                       /\ response'.body = RefreshKeysError
                  ELSE response'.status \in { 401, 403 }
      ]_vars

\* A refresh was answered 200 and the run it started has ended by an
\* exception in the same step; the response was sent before.
WitnessRefreshAnsweredRunThrew ==
    /\ response.route = "refresh"
    /\ response.status = 200
    /\ nCompleted = response.runsCompleted + 1
    /\ lastOutcome = "threw"
    /\ Status(cachedDigest) = "error"
    /\ ~isGenerating

\* C21: the response of GET /api/news-digest is 200 with the cached digest
\* when there is one, and with the placeholder of status 'empty' and no
\* topic exactly when nothing is cached, a run being active or not.
DigestEndpointReturnsCacheOrEmpty ==
    response.route = "digest" =>
        /\ response.status = 200
        /\ getCachedDigest # null => response.body = getCachedDigest
        /\ getCachedDigest = null => response.body = EmptyDigest
        /\ response.body = EmptyDigest <=> getCachedDigest = null
        /\ EmptyDigest.status = "empty" /\ EmptyDigest.topics = <<>>

\* The digest of the first run was served while a second run was active.
WitnessCachedDigestServedDuringRun ==
    /\ response.route = "digest"
    /\ Status(cachedDigest) = "ready"
    /\ response.body = cachedDigest
    /\ isGenerating
    /\ nStarted = 2

\* The indices of the lines of a file that are an interest: not blank
\* and, after the leading whitespace, not starting with '#'.
InterestLines(lines) == { k \in 1..Len(lines) : ~BlankOrComment(lines[k]) }

\* The j-th smallest element of a set of indices.
Nth(S, j) == CHOOSE k \in S : Cardinality({ i \in S : i < k }) = j - 1

\* C22: loadInterests returns one string per line of the file that is not
\* blank and does not start with '#' after its leading whitespace, in the
\* order of the file, each without leading or trailing whitespace and
\* otherwise as written; it returns the empty list, and throws nothing,
\* when the file is absent.
LoadInterestsKeepsTopicLines ==
    config.loaded.done =>
        LET file == config.loaded.file
            got  == config.loaded.value
        IN  /\ file.kind = "absent" => ~config.loaded.threw /\ got = <<>>
            /\ file.kind = "file" =>
                  LET kept == InterestLines(file.lines)
                  IN  /\ ~config.loaded.threw
                      /\ Len(got) = Cardinality(kept)
                      /\ \A j \in 1..Len(got) :
                            LET line == file.lines[Nth(kept, j)]
                            IN  /\ got[j] # <<>>
                                /\ Head(got[j]) \notin Whitespace \cup {"#"}
                                /\ got[j][Len(got[j])] \notin Whitespace
                                /\ \E a, b \in 0..Len(line) :
                                      /\ a + Len(got[j]) + b = Len(line)
                                      /\ got[j] = SubSeq(line, a + 1, a + Len(got[j]))
                                      /\ \A i \in 1..a : line[i] \in Whitespace
                                      /\ \A i \in (Len(line) - b + 1)..Len(line) :
                                            line[i] \in Whitespace

\* A file of a comment line and a padded topic line was read.
WitnessPaddedTopicLoaded ==
    /\ config.loaded.done
    /\ config.loaded.file = [kind |-> "file", lines |-> << <<" ", "#", "a">>, <<" ", "b", "\t">> >>]
    /\ config.loaded.value = << <<"b">> >>

\* The polling started by an accepted refresh stops in this step.
PollingStops == client.timer /\ ~client'.timer

\* C23: the polling started by an accepted refresh stops only in a step
\* after which the run that refresh started has completed and the
\* component shows the digest of that run, which is the cached one.
PollingStopsWhenGenerationDone ==
    [][PollingStops =>
          /\ nCompleted' >= client.triggered
          /\ ~isGenerating'
          /\ client'.digest = cachedDigest'
      ]_vars

\* C24 as stated: a refresh request answered while no run is active is
\* the one accepted, and it starts a run; every refresh request answered
\* while a run is active gets 409.
RefreshAcceptedOrConflict ==
    [][RefreshAnswered =>
          IF isDigestGenerating
          THEN response'.status = 409
          ELSE response'.status = 200 /\ nStarted' = nStarted + 1
      ]_vars

\* C24: the test of isDigestGenerating() and the call of generateDigest
\* are in one step of the handler. Every call of generateDigest made by
\* the endpoint finds the flag clear and starts a run, never returning by
\* the already-generating branch; no request is accepted while a run is
\* active, so one run at most is active. Of the requests of authenticated
\* administrators, with the three keys configured, one answered while no
\* run is active is accepted and each one answered while the run is
\* active gets 409 and changes nothing; once the run has completed, be it
\* in the step that started it, the next one is accepted in turn.
RefreshTestAndStartInOneStep ==
    [][/\ Invoked =>
             /\ ~isGenerating
             /\ RefreshAnswered /\ response'.status = 200
             /\ nStarted' = nStarted + 1
             /\ nInvokedIdle' = now'
             /\ lastReturn' # lastReturn => lastReturn'.started
       /\ (RefreshAnswered /\ response'.status = 200) =>
             /\ Invoked
             /\ Active = {}
             /\ Cardinality(Active') <= 1
       /\ (RefreshAnswered /\ response'.admin /\ KeysConfigured) =>
             IF Active # {}
             THEN response'.status = 409 /\ UNCHANGED agentVars
             ELSE /\ response'.status = 200
                  /\ Active' # {} \/ RunCompleted
      ]_vars

\* The first run is active, started by an accepted refresh, and another
\* administrator's refresh has just been answered 409.
WitnessSecondRefreshConflict ==
    /\ response.route = "refresh"
    /\ response.status = 409
    /\ nStarted = 1 /\ nCompleted = 0
    /\ now = 1
    /\ cachedDigest = null
    /\ Active # {}

\* C25: in every state the cache is null or holds a digest of status
\* 'ready' or 'error'; the 'generating' digest a call gets while a run is
\* active is returned to the caller only. So getCachedDigest() gives no
\* 'generating' digest, and what GET /api/news-digest would send has
\* status 'empty', 'ready' or 'error', a run being active or not.
GeneratingNeverCached ==
    /\ Status(cachedDigest) \in { "null", "ready", "error" }
    /\ Status(getCachedDigest) # "generating"
    /\ DigestBody.status \in { "empty", "ready", "error" }
    /\ DigestBody.status = "empty" <=> cachedDigest = null

\* A call made during the first run got the 'generating' digest; the
\* cache is still empty.
WitnessPlaceholderReturnedNotCached ==
    /\ Returned /\ ~lastReturn.started
    /\ lastReturn.value.status = "generating"
    /\ cachedDigest = null
    /\ isGenerating
    /\ DigestBody = EmptyDigest

\* C26: after every step that leaves the flag clear with a run started,
\* every started run has completed, the last call that returned is the
\* most recently started run, and the cache holds the digest it returned.
\* The cache is written and the flag cleared in one step: a step that
\* changes the cache leaves the flag clear and completes a run; a step
\* that clears the flag completes a run and leaves its digest in the
\* cache; a step that leaves the flag set leaves the cache as it was.
CacheAndFlagChangeTogether ==
    [][/\ (~isGenerating' /\ nStarted' > 0) =>
             /\ nCompleted' = nStarted'
             /\ cachedDigest' # null
             /\ lastReturn'.call # 0 /\ lastReturn'.started
             /\ cachedDigest' = lastReturn'.value
       /\ cachedDigest' # cachedDigest => (~isGenerating' /\ RunCompleted)
       /\ (isGenerating /\ ~isGenerating') =>
             /\ RunCompleted
             /\ cachedDigest' = lastReturn'.value
       /\ isGenerating' => cachedDigest' = cachedDigest
      ]_vars

\* A second run ended with an 'error' digest: the flag is clear and the
\* cache holds that digest.
WitnessErrorDigestOfLastRunCached ==
    /\ ~isGenerating
    /\ nStarted = 2 /\ nCompleted = 2
    /\ lastOutcome = "empty"
    /\ Returned /\ lastReturn.started
    /\ cachedDigest = lastReturn.value
    /\ cachedDigest.generatedAt = now

\* C27: the cache is empty exactly as long as no run has completed: from
\* the completion of the first run on, getCachedDigest() is not null and
\* GET /api/news-digest would not send the 'empty' placeholder, also while
\* a later run is active and after a run that failed.
CacheNeverEmptiedAgain ==
    /\ getCachedDigest = null <=> nCompleted = 0
    /\ DigestBody = EmptyDigest <=> nCompleted = 0
    /\ nCompleted > 0 => DigestBody = cachedDigest

\* A run ended with an 'error' digest and the next run is reading the
\* response of its search: the 'error' digest is still cached.
WitnessCacheHeldDuringLaterRun ==
    /\ nCompleted = 1 /\ nStarted = 2
    /\ Status(cachedDigest) = "error"
    /\ \E c \in Calls : pc[c] = "json"

\* C28: a cached digest of status 'ready' has at least one topic and no
\* error field; one of status 'error' has no topic and an error field that
\* is a non-empty message; and each of its topics has an articleCount
\* equal to the length of its list of articles.
CachedDigestWellFormed ==
    cachedDigest # null =>
        /\ cachedDigest.status \in { "ready", "error" }
        /\ cachedDigest.status = "ready" =>
              /\ Len(cachedDigest.topics) > 0
              /\ "error" \notin DOMAIN cachedDigest
        /\ cachedDigest.status = "error" =>
              /\ cachedDigest.topics = <<>>
              /\ "error" \in DOMAIN cachedDigest
              /\ cachedDigest.error # ""
        /\ \A k \in 1..Len(cachedDigest.topics) :
              cachedDigest.topics[k].articleCount = Len(cachedDigest.topics[k].articles)

\* The cached digest is 'ready' with a topic of one article and a topic
\* without articles.
WitnessReadyDigestMixedCounts ==
    /\ Status(cachedDigest) = "ready"
    /\ Len(cachedDigest.topics) = 2
    /\ cachedDigest.topics[1].articleCount = 1
    /\ cachedDigest.topics[2].articleCount = 0

\* The request of frame c to the search API or to the model is in flight
\* before this step and has not returned after it.
StillOutstanding(c) == pc[c] \in SearchPcs \cup { "llm" } /\ pc'[c] = pc[c]

\* The flag is cleared by this step.
FlagCleared == isGenerating /\ ~isGenerating'

\* C29 as stated: the flag is cleared only by the completion of the run;
\* as long as a search or model call has not returned, the flag stays set,
\* the cache is not changed and every refresh request is answered 409.
StuckRunRejectsEveryRefresh ==
    [][/\ FlagCleared => RunCompleted
       /\ \A c \in Calls : StillOutstanding(c) =>
             /\ isGenerating'
             /\ cachedDigest' = cachedDigest
             /\ RefreshAnswered => response'.status = 409
      ]_vars

\* C29: the flag is cleared only by the step in which an await of the
\* active run settles and the run completes; no request and no other step
\* clears it. In every step that leaves a search or model call of the run
\* in flight, the flag is set before and after, no run starts or
\* completes, the cache is unchanged, and a refresh request is answered
\* 409 if it comes from an authenticated administrator and 401 or 403
\* otherwise. So if the call never returns, this lasts forever.
FlagClearedOnlyByRunCompletion ==
    [][/\ FlagCleared =>
             /\ RunCompleted
             /\ Active # {} /\ Active' = {}
             /\ response' = NoResponse
       /\ \A c \in Calls : StillOutstanding(c) =>
             /\ isGenerating /\ isGenerating'
             /\ cachedDigest' = cachedDigest
             /\ nStarted' = nStarted /\ nCompleted' = nCompleted
             /\ RefreshAnswered =>
                   IF response'.admin THEN response'.status = 409
                   ELSE response'.status \in { 401, 403 }
      ]_vars

\* The model call of a run has not returned, an 'error' digest of an
\* earlier run is cached, and an administrator's refresh got 409.
WitnessRefreshRejectedWhileModelCalled ==
    /\ \E c \in Calls : pc[c] = "llm"
    /\ isGenerating
    /\ Status(cachedDigest) = "error"
    /\ response.route = "refresh"
    /\ response.status = 409

\* The refresh request handled by the step carries a token jwt.verify
\* accepts.
TokenAccepted == request'.authorization = "valid"

\* C30: a run is started only by a step that answers a refresh request
\* carrying a valid token with the admin role, while each of the three API
\* keys is configured. A refresh request without a valid token is answered
\* 401, one with a valid token of another role 403, and an
\* administrator's while a key is missing 500; none of the three starts a
\* run, and each leaves the cache, the flag and the runs unchanged.
OnlyAuthorizedRefreshStartsRun ==
    [][/\ nStarted' # nStarted =>
             /\ RefreshAnswered
             /\ TokenAccepted /\ request'.role = "admin"
             /\ \A n \in SecretNames : secrets[n] # ""
             /\ response'.status = 200
             /\ nStarted' = nStarted + 1
       /\ (RefreshAnswered /\ ~TokenAccepted) =>
             /\ response'.status = 401
             /\ UNCHANGED agentVars
       /\ (RefreshAnswered /\ TokenAccepted /\ request'.role # "admin") =>
             /\ response'.status = 403
             /\ UNCHANGED agentVars
       /\ (/\ RefreshAnswered /\ TokenAccepted /\ request'.role = "admin"
           /\ \E n \in SecretNames : secrets[n] = "") =>
             /\ response'.status = 500
             /\ UNCHANGED agentVars
      ]_vars

\* A refresh request with a valid token of role 'user' was answered 403
\* while every key was configured, a digest was cached and no run was
\* active.
WitnessNonAdminRefreshForbidden ==
    /\ request = [authorization |-> "valid", role |-> "user"]
    /\ response.route = "refresh"
    /\ response.status = 403
    /\ \A n \in SecretNames : secrets[n] # ""
    /\ cachedDigest # null
    /\ ~isGenerating

====
